---- MODULE Spec2Model ----
(***************************************************************************)
(* Model of the hawkop API client's authenticated request pipeline:        *)
(*   internal/config/config.go  (Config, JWT, SetAPIKey, NeedsJWTRefresh)  *)
(*   internal/api/client.go     (EnsureValidJWT, authenticate,             *)
(*                               DoAuthenticatedRequestWithParams,         *)
(*                               respectRateLimit, makeRequestWithRetry,   *)
(*                               the resource accessors)                   *)
(* Time is counted in milliseconds.  One client, one goroutine.  The       *)
(* server's answers, the outcome of saving the config file and the time    *)
(* that passes between calls are the inputs.                               *)
(* Spec is the request pipeline; CommandSpec is the layer above it: the    *)
(* query parameters, the list accessors (internal/api/client.go), runScanList *)
(* (cmd/scan.go) and the key lines of the status and init commands.        *)
(* ResendSpec follows the *http.Request of one executor call through its   *)
(* sends; RaceSpec runs EnsureValidJWT in two goroutines on one client.    *)
(***************************************************************************)
EXTENDS Integers, Sequences, FiniteSets, TLC

VARIABLES
    apiKey,       \* Config.APIKey
    orgID,        \* Config.OrgID
    jwt,          \* Config.JWT (NilJWT models the nil pointer)
    disk,         \* the config file as last written by Config.Save
    lastRequest,  \* Client.lastRequest (ZeroTime models the zero time.Time)
    now,          \* the wall clock, ms
    pc,           \* where the running operation stands
    result,       \* what DoAuthenticatedRequestWithParams returned
    log,          \* what the running operation did so far (history)
    lastOutbound, \* start of this client's previous HTTP request (history)
    firstCallAt,  \* start of this client's first executor call (history)
    minGap,       \* smallest distance between two consecutive requests (history)
    nCalls,       \* executor calls that sent their request and returned (history)
    nOps,         \* operations started so far (bounds the behaviours)
    call,         \* the command or accessor call under way above the executor
    query,        \* the query parameters that call put on the wire
    returned,     \* what that call returned to its caller
    output,       \* what that call wrote to the terminal
    req,          \* the *http.Request of an executor call and where that call stands
    wire,         \* the requests the server received in full from that call
    procs         \* two goroutines sharing the client: where each stands

\* The request pipeline (config and client) and the layer above it.
pipeVars == <<apiKey, orgID, jwt, disk, lastRequest, now, pc, result, log,
              lastOutbound, firstCallAt, minGap, nCalls, nOps>>

cmdVars == <<call, query, returned, output>>

\* The request object of one executor call and what it put on the wire.
sendVars == <<req, wire>>

\* Everything outside the request pipeline.
outerVars == <<call, query, returned, output, req, wire, procs>>

vars == <<apiKey, orgID, jwt, disk, lastRequest, now, pc, result, log,
          lastOutbound, firstCallAt, minGap, nCalls, nOps,
          call, query, returned, output, req, wire, procs>>

----------------------------------------------------------------------------
(* Bounds and program constants *)

MaxOps == 2
RoundTrip == 50

MinInterval == 167
RetryAfterDefaultSec == 60
DefaultTokenMinutes == 30
MsPerSecond == 1000
MsPerMinute == 60 * MsPerSecond
HTTPTimeoutSec == 30

ZeroTime == 0 - 1
NoGap == 0 - 1

(* The values the inputs are drawn from *)

APIKeys == {"", "key-1"}
ServerTokens == {"", "jwt-new"}
Bodies == {"", "{\"message\":\"m\"}"}
Statuses == {200, 201, 202, 204, 400, 401, 403, 404, 409, 422, 429, 500}
LoginFailures == {204, 401, 500}
RetryAfterHeaders == {"", "0", "2", "Fri, 06 Nov 2026 10:00:00 GMT"}
Latencies == {RoundTrip}
\* A login answer arrives at once or just within the http.Client's timeout.
LoginLatencies == {RoundTrip, HTTPTimeoutSec * MsPerSecond}
ElapseSteps == {MinInterval, (DefaultTokenMinutes + 1) * MsPerMinute}

\* What the login endpoint can answer: a transport error, a non-200 status,
\* a 200 whose body does not decode, a 200 with a token and an optional expiry
\* (hasExp says whether the body carries expires_at; expiry is then "zero" for
\* the zero time 0001-01-01T00:00:00Z and "time" for any other instant, which
\* expOffset gives relative to the arrival time; an omitted expires_at decodes
\* to the zero time).
LoginAnswer(neterr, status, body, decodes, token, hasExp, expiry, expOffset) ==
    [neterr |-> neterr, status |-> status, body |-> body, decodes |-> decodes,
     token |-> token, hasExp |-> hasExp, expiry |-> expiry, expOffset |-> expOffset]

LoginAnswers ==
    {LoginAnswer(TRUE, 0, "", FALSE, "", FALSE, "zero", 0)}
    \cup {LoginAnswer(FALSE, s, b, FALSE, "", FALSE, "zero", 0) :
            s \in LoginFailures, b \in Bodies}
    \cup {LoginAnswer(FALSE, 200, "", FALSE, "", FALSE, "zero", 0)}
    \cup {LoginAnswer(FALSE, 200, "{}", TRUE, t, FALSE, "zero", 0) : t \in ServerTokens}
    \cup {LoginAnswer(FALSE, 200, "{}", TRUE, "jwt-new", TRUE, "zero", 0)}
    \cup {LoginAnswer(FALSE, 200, "{}", TRUE, "jwt-new", TRUE, "time", o) :
            o \in {60 * MsPerMinute, 0 - MsPerMinute}}

\* What a resource endpoint can answer: a transport error, or a status with a
\* body and, on 429, a Retry-After header ("" when the header is absent).
Answer(neterr, status, body, retryAfter) ==
    [neterr |-> neterr, status |-> status, body |-> body, retryAfter |-> retryAfter]

Answers ==
    {Answer(TRUE, 0, "", "")}
    \cup {Answer(FALSE, s, b, "") : s \in Statuses \ {429}, b \in Bodies}
    \cup {Answer(FALSE, 429, b, h) : b \in Bodies, h \in RetryAfterHeaders}

\* The answers to the first send: the body of a 401 or a 429 is closed unread
\* there, so one body stands for all.
FirstAnswers == {a \in Answers : a.status \in {401, 429} => a.body = ""}

----------------------------------------------------------------------------
(* internal/config/config.go *)

NilJWT == [present |-> FALSE, Token |-> "", ExpiresAt |-> 0]

SetJWT(token, expiresAt) == [present |-> TRUE, Token |-> token, ExpiresAt |-> expiresAt]

ClearJWT == NilJWT

\* time.Now().After(j.ExpiresAt)
IsExpired(j, t) == IF ~j.present THEN TRUE ELSE t > j.ExpiresAt

IsValid(j, t) == j.present /\ j.Token # "" /\ ~IsExpired(j, t)

HasValidCredentials(k) == k # ""

\* Faulty variant of NeedsJWTRefresh: an expired token is not refreshed.
NeedsJWTRefreshNilOnly(k, j, t) == HasValidCredentials(k) /\ ~j.present

NeedsJWTRefresh(k, j, t) == HasValidCredentials(k) /\ (~j.present \/ IsExpired(j, t))

ConfigRecord(k, o, j) == [APIKey |-> k, OrgID |-> o, JWT |-> j]

\* Config.Save: the file holds the config as marshalled, or keeps its old
\* content when the write fails.
Save(saveOk, k, o, j) == IF saveOk THEN ConfigRecord(k, o, j) ELSE disk

----------------------------------------------------------------------------
(* internal/api/client.go: results, errors and the operation's history *)

NoResult ==
    [kind |-> "none", status |-> 0, body |-> "", text |-> "", code |-> 0,
     hint |-> "", wrap |-> ""]

\* (resp, nil): the raw response is handed to the caller.
Ok(status, body) ==
    [kind |-> "ok", status |-> status, body |-> body, text |-> "", code |-> 0,
     hint |-> "", wrap |-> ""]

\* (nil, err) for a message "<text> (<code>): <hint> - <body>": text is the
\* leading words of the format string, code the status code it prints (0 when
\* it prints none), hint its trailing words, body the %s argument.
Err(text, code, hint, body) ==
    [kind |-> "err", status |-> 0, body |-> body, text |-> text, code |-> code,
     hint |-> hint, wrap |-> ""]

\* fmt.Errorf("<prefix>: %w", err)
Wrap(prefix, e) == [e EXCEPT !.wrap = prefix]

\* History only: one step of the running operation, at time at.
Ev(ev, at, tok, code, dur) ==
    [ev |-> ev, at |-> at, tok |-> tok, code |-> code, dur |-> dur, hdr |-> "", body |-> "",
     save |-> ""]

\* History only: the answer a to a login request arrives at time at and
\* EnsureValidJWT returns (ev is "ensure_ok" or "ensure_err"); save tells
\* whether authenticate called Config.Save ("" when it did not) and how the
\* save ended ("ok", "failed").
LoginRecv(ev, at, a, save) ==
    [ev |-> ev, at |-> at, tok |-> a.token, code |-> a.status, dur |-> a.expOffset,
     hdr |-> IF a.hasExp THEN a.expiry ELSE "", body |-> a.body, save |-> save]

\* History only: the answer a to a resource request arrives at time at.
Recv(at, a) ==
    [ev |-> "recv", at |-> at, tok |-> "", code |-> a.status, dur |-> 0,
     hdr |-> a.retryAfter, body |-> a.body, save |-> ""]

Min(a, b) == IF a < b THEN a ELSE b

\* History only: the smallest distance between consecutive requests once a
\* request starts at time t.
Outbound(t, prev, gap) ==
    IF prev = ZeroTime THEN gap
    ELSE IF gap = NoGap THEN t - prev ELSE Min(gap, t - prev)

\* strconv.Atoi on the header values the model draws from.
Atoi(s) ==
    CASE s = "0" -> [ok |-> TRUE, n |-> 0]
      [] s = "2" -> [ok |-> TRUE, n |-> 2]
      [] OTHER -> [ok |-> FALSE, n |-> 0]

\* Faulty variant of RetryAfter: the Retry-After header is not read.
RetryAfterDefaultOnly(header) == RetryAfterDefaultSec * MsPerSecond

\* makeRequestWithRetry, the 429 case: the duration handed to time.Sleep, ms.
RetryAfter(header) ==
    IF header # "" /\ Atoi(header).ok
    THEN Atoi(header).n * MsPerSecond
    ELSE RetryAfterDefaultSec * MsPerSecond

\* respectRateLimit: how long it sleeps at time t.
RateLimitSleep(last, t) ==
    IF last # ZeroTime /\ t - last < MinInterval THEN MinInterval - (t - last) ELSE 0

\* EnsureValidJWT up to its return or its call of authenticate.
EnsureValidJWT(k, j, t) ==
    IF ~NeedsJWTRefresh(k, j, t) THEN "ok"
    ELSE IF ~HasValidCredentials(k) THEN "nocreds"
    ELSE "login"

NoCredentials ==
    Err("no API key configured - run 'hawkop init' to set up credentials", 0, "", "")

\* Faulty variant of Authenticate: the 30-minute default is not applied when
\* the answer has no expiry, so the decoded zero time is stored as it is.
AuthenticateNoDefault(a, saveOk, t) ==
    IF a.neterr
    THEN [jwt |-> jwt, disk |-> disk, save |-> "",
          err |-> Err("failed to authenticate", 0, "", "")]
    ELSE IF a.status # 200
    THEN [jwt |-> jwt, disk |-> disk, save |-> "",
          err |-> Err("authentication failed: HTTP", a.status, "", a.body)]
    ELSE IF ~a.decodes
    THEN [jwt |-> jwt, disk |-> disk, save |-> "",
          err |-> Err("failed to parse auth response", 0, "", "")]
    ELSE LET isZero == ~a.hasExp \/ a.expiry = "zero"
             j == SetJWT(a.token, IF isZero THEN ZeroTime ELSE t + a.expOffset)
         IN  [jwt |-> j, disk |-> Save(saveOk, apiKey, orgID, j),
              save |-> IF saveOk THEN "ok" ELSE "failed",
              err |-> IF saveOk THEN NoResult
                      ELSE Err("failed to save JWT token", 0, "", "")]

\* Faulty variant of Authenticate: a rejected login drops the cached token
\* and writes the config file.
AuthenticateClearsOnFailure(a, saveOk, t) ==
    IF a.neterr
    THEN [jwt |-> jwt, disk |-> disk, save |-> "",
          err |-> Err("failed to authenticate", 0, "", "")]
    ELSE IF a.status # 200
    THEN [jwt |-> ClearJWT, disk |-> Save(saveOk, apiKey, orgID, ClearJWT),
          save |-> IF saveOk THEN "ok" ELSE "failed",
          err |-> Err("authentication failed: HTTP", a.status, "", a.body)]
    ELSE IF ~a.decodes
    THEN [jwt |-> jwt, disk |-> disk, save |-> "",
          err |-> Err("failed to parse auth response", 0, "", "")]
    ELSE LET isZero == ~a.hasExp \/ a.expiry = "zero"
             expiresAt == IF isZero THEN t + DefaultTokenMinutes * MsPerMinute
                          ELSE t + a.expOffset
             j == SetJWT(a.token, expiresAt)
         IN  [jwt |-> j, disk |-> Save(saveOk, apiKey, orgID, j),
              save |-> IF saveOk THEN "ok" ELSE "failed",
              err |-> IF saveOk THEN NoResult
                      ELSE Err("failed to save JWT token", 0, "", "")]

\* Faulty variant of Authenticate: the token is cached only once it has been
\* saved, so a failed save leaves the config as it was.
AuthenticateSaveFirst(a, saveOk, t) ==
    IF a.neterr
    THEN [jwt |-> jwt, disk |-> disk, save |-> "",
          err |-> Err("failed to authenticate", 0, "", "")]
    ELSE IF a.status # 200
    THEN [jwt |-> jwt, disk |-> disk, save |-> "",
          err |-> Err("authentication failed: HTTP", a.status, "", a.body)]
    ELSE IF ~a.decodes
    THEN [jwt |-> jwt, disk |-> disk, save |-> "",
          err |-> Err("failed to parse auth response", 0, "", "")]
    ELSE LET isZero == ~a.hasExp \/ a.expiry = "zero"
             expiresAt == IF isZero THEN t + DefaultTokenMinutes * MsPerMinute
                          ELSE t + a.expOffset
             j == SetJWT(a.token, expiresAt)
         IN  [jwt |-> IF saveOk THEN j ELSE jwt, disk |-> Save(saveOk, apiKey, orgID, j),
              save |-> IF saveOk THEN "ok" ELSE "failed",
              err |-> IF saveOk THEN NoResult
                      ELSE Err("failed to save JWT token", 0, "", "")]

\* authenticate from the arrival of the login answer at time t: the config,
\* the config file and the error it returns.
Authenticate(a, saveOk, t) ==
    IF a.neterr
    THEN [jwt |-> jwt, disk |-> disk, save |-> "",
          err |-> Err("failed to authenticate", 0, "", "")]
    ELSE IF a.status # 200
    THEN [jwt |-> jwt, disk |-> disk, save |-> "",
          err |-> Err("authentication failed: HTTP", a.status, "", a.body)]
    ELSE IF ~a.decodes
    THEN [jwt |-> jwt, disk |-> disk, save |-> "",
          err |-> Err("failed to parse auth response", 0, "", "")]
    ELSE LET isZero == ~a.hasExp \/ a.expiry = "zero"
             expiresAt == IF isZero THEN t + DefaultTokenMinutes * MsPerMinute
                          ELSE t + a.expOffset
             j == SetJWT(a.token, expiresAt)
         IN  [jwt |-> j, disk |-> Save(saveOk, apiKey, orgID, j),
              save |-> IF saveOk THEN "ok" ELSE "failed",
              err |-> IF saveOk THEN NoResult
                      ELSE Err("failed to save JWT token", 0, "", "")]

\* makeRequestWithRetry, the statuses returned as a success at once.
IsSuccess(status) == status \in {200, 201, 202}

\* Faulty variant of StatusError: the 409 case was copied from the 404 case
\* and kept its message.
StatusErrorCopied(status, body) ==
    CASE status = 400 -> Err("bad request", 400, "", body)
      [] status = 403 -> Err("forbidden", 403, "insufficient permissions", body)
      [] status = 404 -> Err("not found", 404, "resource does not exist", body)
      [] status = 409 -> Err("not found", 404, "resource does not exist", body)
      [] status = 422 -> Err("unprocessable entity", 422, "invalid input", body)
      [] OTHER -> Err("API error: HTTP", status, "", body)

\* makeRequestWithRetry, the cases that fail at once.
StatusError(status, body) ==
    CASE status = 400 -> Err("bad request", 400, "", body)
      [] status = 403 -> Err("forbidden", 403, "insufficient permissions", body)
      [] status = 404 -> Err("not found", 404, "resource does not exist", body)
      [] status = 409 -> Err("conflict", 409, "resource cannot be modified", body)
      [] status = 422 -> Err("unprocessable entity", 422, "invalid input", body)
      [] OTHER -> Err("API error: HTTP", status, "", body)

\* json.NewDecoder(resp.Body).Decode into an envelope struct: any JSON object
\* decodes (unknown fields are ignored, missing ones stay empty), an empty
\* body does not.
Decodes(body) == body # ""

\* GetUser on what the executor returned.
GetUser(r) ==
    IF r.kind = "err" THEN Wrap("failed to get user info", r)
    ELSE IF r.status # 200 THEN Err("API error: HTTP", r.status, "", "")
    ELSE IF ~Decodes(r.body) THEN Err("failed to parse user response", 0, "", "")
    ELSE Ok(r.status, r.body)

\* ListOrganizationMembers, ListOrganizationTeams, ListOrganizationApplications
\* and ListOrganizationScansWithOptions on what the executor returned.
ListAccessor(r) ==
    IF r.kind = "err" THEN r
    ELSE IF ~Decodes(r.body) THEN Err("failed to parse response", 0, "", "")
    ELSE Ok(r.status, r.body)

\* GetScanAlerts on what the executor returned.
GetScanAlerts(r) ==
    IF r.kind = "err" THEN Wrap("failed to get scan alerts", r)
    ELSE IF r.status # 200 THEN Err("API error: HTTP", r.status, "", r.body)
    ELSE IF ~Decodes(r.body) THEN Err("failed to parse scan alerts response", 0, "", "")
    ELSE Ok(r.status, r.body)

----------------------------------------------------------------------------
(* The layer above the executor: query parameters, the list accessors and   *)
(* the commands that print the API key.  Strings whose characters matter    *)
(* (numbers in decimal, the API key) are sequences of characters.           *)

MaxItems == 2

DefaultPageSize == 1000
MaxPageSize == 1000
ScanListPageSize == 1000
KeyPrefixLen == 8

Max(a, b) == IF a > b THEN a ELSE b

Digit(d) ==
    CASE d = 0 -> "0" [] d = 1 -> "1" [] d = 2 -> "2" [] d = 3 -> "3" [] d = 4 -> "4"
      [] d = 5 -> "5" [] d = 6 -> "6" [] d = 7 -> "7" [] d = 8 -> "8" [] d = 9 -> "9"

RECURSIVE Digits(_)
Digits(n) == IF n < 10 THEN <<Digit(n)>> ELSE Append(Digits(n \div 10), Digit(n % 10))

\* strconv.Itoa
Itoa(n) == IF n < 0 THEN <<"-">> \o Digits(0 - n) ELSE Digits(n)

\* The values the inputs of this layer are drawn from
PageSizes == {0 - 1, 0, 1, 500, 1000, 1001, 5000}
PageTokens == {<<>>, <<"p", "2">>}
Timestamp == <<"t", "i", "m", "e", "s", "t", "a", "m", "p">>
Desc == <<"d", "e", "s", "c">>
SortFields == {<<>>, Timestamp, <<"i", "d">>}
SortDirs == {<<>>, Desc, <<"a", "s", "c">>}
KeyInputs ==
    {<<>>,
     <<"a", "b", "c">>,
     <<"a", "b", "c", "d", "e", "f", "g", "h">>,
     <<"a", "b", "c", "d", "e", "f", "g", "h", "i", "j">>}
Items == {"a", "b"}
Arrays == UNION {[1..n -> Items] : n \in 0..MaxItems}

\* *PaginationOptions; NilOptions is the nil pointer.
PaginationOptions(pageSize, pageToken, page, sortField, sortDir) ==
    [nil |-> FALSE, PageSize |-> pageSize, PageToken |-> pageToken, Page |-> page,
     SortField |-> sortField, SortDir |-> sortDir]

NilOptions ==
    [nil |-> TRUE, PageSize |-> 0, PageToken |-> <<>>, Page |-> <<>>,
     SortField |-> <<>>, SortDir |-> <<>>]

Pages == {<<>>, <<"2">>}

OptionsInputs ==
    {NilOptions}
    \cup {PaginationOptions(ps, pt, pg, sf, sd) :
            ps \in PageSizes, pt \in PageTokens, pg \in Pages, sf \in SortFields,
            sd \in SortDirs}

\* Parameter maps a caller of the package can hand in: any of these keys, with
\* an empty or a non-empty value.
ParamInputs ==
    UNION {[ks -> {<<>>, <<"5">>}] : ks \in SUBSET {"pageSize", "pageToken", "sortDir"}}

\* A map[string]string with no entry (also what a nil map reads as).
NoParams == [k \in {} |-> <<>>]

\* ListOrganizationScansWithOptions: the overrides it builds from its options.
ScanOverrides(opts) ==
    IF opts.nil THEN NoParams
    ELSE LET set == {k \in {"pageSize", "pageToken", "page", "sortField", "sortDir"} :
                       CASE k = "pageSize" -> opts.PageSize > 0
                         [] k = "pageToken" -> opts.PageToken # <<>>
                         [] k = "page" -> opts.Page # <<>>
                         [] k = "sortField" -> opts.SortField # <<>>
                         [] k = "sortDir" -> opts.SortDir # <<>>}
         IN  [k \in set |->
                CASE k = "pageSize" ->
                       Itoa(IF opts.PageSize > MaxPageSize THEN MaxPageSize
                            ELSE opts.PageSize)
                  [] k = "pageToken" -> opts.PageToken
                  [] k = "page" -> opts.Page
                  [] k = "sortField" -> opts.SortField
                  [] k = "sortDir" -> opts.SortDir]

\* Faulty variant of BuildStandardParams: only the overrides, no default.
BuildStandardParamsNoDefault(overrides) ==
    [k \in {k \in DOMAIN overrides : overrides[k] # <<>>} |-> overrides[k]]

BuildStandardParams(overrides) ==
    LET applied == {k \in DOMAIN overrides : overrides[k] # <<>>}
    IN  [k \in {"pageSize"} \cup applied |->
           IF k \in applied THEN overrides[k] ELSE Itoa(DefaultPageSize)]

\* Faulty variant of QueryOnWire: every parameter is set, empty or not.
QueryOnWireAll(params) == params

\* DoAuthenticatedRequestWithParams: the query string it builds (values of
\* this alphabet are not changed by the URL encoding).
QueryOnWire(params) == [k \in {k \in DOMAIN params : params[k] # <<>>} |-> params[k]]

\* runScanList: the options it hands to ListOrganizationScansWithOptions.
ScanListOptions(pageSize, pageToken, sortBy, sortDir) ==
    PaginationOptions(
        IF pageSize > 0
        THEN (IF pageSize > ScanListPageSize THEN ScanListPageSize ELSE pageSize)
        ELSE ScanListPageSize,
        pageToken, <<>>,
        IF sortBy # <<>> /\ sortBy # Timestamp THEN sortBy ELSE <<>>,
        IF sortDir # <<>> /\ sortDir # Desc THEN sortDir ELSE <<>>)

\* A response body: not JSON, or a JSON object with one named member.
NotJSON == [valid |-> FALSE, fields |-> NoParams]

Object(field, value) == [valid |-> TRUE, fields |-> [k \in {field} |-> value]]

\* The envelope member each list accessor reads.
EnvelopeField(name) ==
    CASE name = "members" -> "users"
      [] name = "teams" -> "teams"
      [] name = "applications" -> "applications"
      [] name \in {"scans", "scansWithOptions", "scanList"} -> "applicationScanResults"

\* json.Decode into the envelope struct of a list accessor: a member that is
\* missing leaves a nil slice.
DecodeList(body, field) ==
    IF ~body.valid THEN [ok |-> FALSE, items |-> <<>>]
    ELSE [ok |-> TRUE,
          items |-> IF field \in DOMAIN body.fields THEN body.fields[field] ELSE <<>>]

NoReturn == [kind |-> "none", items |-> <<>>]

\* A list accessor from the executor's return on.
ListReturn(r, field) ==
    IF r.kind = "err" THEN [kind |-> "err", items |-> <<>>]
    ELSE LET d == DecodeList(r.body, field)
         IN  IF d.ok THEN [kind |-> "ok", items |-> d.items]
             ELSE [kind |-> "err", items |-> <<>>]

\* OrganizationMembership, Organization and the profiles GetUser can decode.
Organizations == {[ID |-> "org-1", Name |-> "A"], [ID |-> "org-2", Name |-> "B"]}

Memberships == {[Organization |-> o, Role |-> r] : o \in Organizations, r \in {"ADMIN", "MEMBER"}}

Profiles == UNION {[1..n -> Memberships] : n \in 0..MaxItems}

User(memberships) == [StackhawkId |-> "u-1", External |-> [Organizations |-> memberships]]

\* json.Decode into UserResponse.
DecodeUser(body) ==
    IF ~body.valid THEN [ok |-> FALSE, user |-> User(<<>>)]
    ELSE [ok |-> TRUE,
          user |-> IF "user" \in DOMAIN body.fields THEN body.fields["user"]
                   ELSE User(<<>>)]

\* The organizations of a sequence of memberships, each id once.
RECURSIVE Dedup(_)
Dedup(ms) ==
    IF ms = <<>> THEN <<>>
    ELSE LET front == Dedup(SubSeq(ms, 1, Len(ms) - 1))
             last == ms[Len(ms)].Organization
         IN  IF \E i \in DOMAIN front : front[i].ID = last.ID THEN front
             ELSE Append(front, last)

\* Faulty variant of ListOrganizations: an organization is listed once.
ListOrganizationsDedup(r) ==
    IF r.kind = "err" \/ r.status # 200 THEN [kind |-> "err", items |-> <<>>]
    ELSE LET d == DecodeUser(r.body)
         IN  IF ~d.ok THEN [kind |-> "err", items |-> <<>>]
             ELSE [kind |-> "ok", items |-> Dedup(d.user.External.Organizations)]

\* ListOrganizations from the executor's return on (GetUser, then the loop).
ListOrganizations(r) ==
    IF r.kind = "err" \/ r.status # 200 THEN [kind |-> "err", items |-> <<>>]
    ELSE LET d == DecodeUser(r.body)
             ms == d.user.External.Organizations
         IN  IF ~d.ok THEN [kind |-> "err", items |-> <<>>]
             ELSE [kind |-> "ok", items |-> [i \in 1..Len(ms) |-> ms[i].Organization]]

\* ScanAlertsResponse.ApplicationScanResults: one entry per application.
MaxApps == 2

ScanResult(alerts) == [ApplicationAlerts |-> alerts]

ScanResults == UNION {[1..n -> {ScanResult(a) : a \in Arrays}] : n \in 0..MaxApps}

\* json.Decode into ScanAlertsResponse.
DecodeAlerts(body) ==
    IF ~body.valid THEN [ok |-> FALSE, results |-> <<>>]
    ELSE [ok |-> TRUE,
          results |-> IF "applicationScanResults" \in DOMAIN body.fields
                      THEN body.fields["applicationScanResults"] ELSE <<>>]

\* GetScanAlerts, its loop: alerts = append(alerts, result.ApplicationAlerts...)
\* for each result in turn.
RECURSIVE AppendAlerts(_)
AppendAlerts(results) ==
    IF results = <<>> THEN <<>>
    ELSE AppendAlerts(SubSeq(results, 1, Len(results) - 1))
         \o results[Len(results)].ApplicationAlerts

\* Faulty variant of ScanAlertsReturn: the loop assigns instead of appending.
ScanAlertsReturnLastOnly(r) ==
    IF r.kind = "err" \/ r.status # 200 THEN [kind |-> "err", items |-> <<>>]
    ELSE LET d == DecodeAlerts(r.body)
         IN  IF ~d.ok THEN [kind |-> "err", items |-> <<>>]
             ELSE [kind |-> "ok",
                   items |-> IF d.results = <<>> THEN <<>>
                             ELSE d.results[Len(d.results)].ApplicationAlerts]

\* GetScanAlerts from the executor's return on, with the alerts it returns.
ScanAlertsReturn(r) ==
    IF r.kind = "err" \/ r.status # 200 THEN [kind |-> "err", items |-> <<>>]
    ELSE LET d == DecodeAlerts(r.body)
         IN  IF ~d.ok THEN [kind |-> "err", items |-> <<>>]
             ELSE [kind |-> "ok", items |-> AppendAlerts(d.results)]

\* runStatus and promptForAPIKey: what they print of a configured key.
MaskedKey(key) ==
    SubSeq(key, 1, Min(KeyPrefixLen, Len(key)))
    \o <<"...">>
    \o [i \in 1..Max(0, Len(key) - KeyPrefixLen) |-> "*"]

NoResponse == [kind |-> "none", status |-> 0, body |-> NotJSON]

NoCall ==
    [name |-> "none", phase |-> "none", asked |-> 0, key |-> <<>>, resp |-> NoResponse,
     opts |-> NilOptions, given |-> NoParams]

\* A call under way: opts are the options and given the parameter map its
\* caller handed in.
Started(name, asked) ==
    [name |-> name, phase |-> "sent", asked |-> asked, key |-> <<>>, resp |-> NoResponse,
     opts |-> NilOptions, given |-> NoParams]

\* One command per process, one accessor call per command: nothing of this
\* layer is kept from one call to the next.
CmdIdle == call.phase = "none"

\* ListOrganizationMembers, ListOrganizationTeams, ListOrganizationApplications
\* up to the executor's call.
ListCall(name) ==
    /\ CmdIdle
    /\ call' = Started(name, 0)
    /\ query' = QueryOnWire(BuildStandardParams(NoParams))
    /\ returned' = NoReturn
    /\ output' = <<>>
    /\ UNCHANGED <<pipeVars, sendVars, procs>>

\* ListOrganizationScansWithOptions up to the executor's call.
ListOrganizationScansWithOptions(opts) ==
    /\ CmdIdle
    /\ call' = [Started("scansWithOptions", opts.PageSize) EXCEPT !.opts = opts]
    /\ query' = QueryOnWire(BuildStandardParams(ScanOverrides(opts)))
    /\ returned' = NoReturn
    /\ output' = <<>>
    /\ UNCHANGED <<pipeVars, sendVars, procs>>

\* ListOrganizationScans up to the executor's call.
ListOrganizationScans ==
    /\ CmdIdle
    /\ call' = Started("scans", 0)
    /\ query' = QueryOnWire(BuildStandardParams(ScanOverrides(NilOptions)))
    /\ returned' = NoReturn
    /\ output' = <<>>
    /\ UNCHANGED <<pipeVars, sendVars, procs>>

\* runScanList (hawkop scan list --page-size ...) up to the executor's call.
RunScanList(pageSize, pageToken, sortBy, sortDir) ==
    /\ CmdIdle
    /\ call' = Started("scanList", pageSize)
    /\ query' = QueryOnWire(BuildStandardParams(ScanOverrides(
                    ScanListOptions(pageSize, pageToken, sortBy, sortDir))))
    /\ returned' = NoReturn
    /\ output' = <<>>
    /\ UNCHANGED <<pipeVars, sendVars, procs>>

\* A caller of the package: GetWithParams with BuildStandardParams of its own
\* overrides; the raw response is the caller's business.
GetWithStandardParams(pageSize, sortField) ==
    /\ CmdIdle
    /\ call' = [Started("buildParams", pageSize) EXCEPT !.phase = "done"]
    /\ query' = QueryOnWire(BuildStandardParams(
                    [k \in {"pageSize", "sortField"} |->
                       IF k = "pageSize" THEN Itoa(pageSize) ELSE sortField]))
    /\ returned' = NoReturn
    /\ output' = <<>>
    /\ UNCHANGED <<pipeVars, sendVars, procs>>

\* A caller of the package: GetWithParams with BuildStandardParams of a map
\* whose values can be empty.
GetWithStandardOverrides(overrides) ==
    /\ CmdIdle
    /\ call' = [Started("buildOverrides", 0) EXCEPT !.phase = "done", !.given = overrides]
    /\ query' = QueryOnWire(BuildStandardParams(overrides))
    /\ returned' = NoReturn
    /\ output' = <<>>
    /\ UNCHANGED <<pipeVars, sendVars, procs>>

\* A caller of the package: GetWithParams with a map of its own.
GetWithParams(params) ==
    /\ CmdIdle
    /\ call' = [Started("getWithParams", 0) EXCEPT !.phase = "done", !.given = params]
    /\ query' = QueryOnWire(params)
    /\ returned' = NoReturn
    /\ output' = <<>>
    /\ UNCHANGED <<pipeVars, sendVars, procs>>

\* A list accessor from the executor's return on: an error, or a response of
\* any status (a resend's response is returned whatever its status).
ListAccessorReturn ==
    /\ call.phase = "sent"
    /\ call.name \in {"members", "teams", "applications", "scans", "scansWithOptions",
                      "scanList"}
    /\ \/ \E status \in {200, 201, 500}, f \in {"users", "teams", "applications",
                                                "applicationScanResults", "message"},
             arr \in Arrays, valid \in BOOLEAN :
            LET r == [kind |-> "ok", status |-> status,
                      body |-> IF valid THEN Object(f, arr) ELSE NotJSON]
            IN  /\ call' = [call EXCEPT !.phase = "done", !.resp = r]
                /\ returned' = ListReturn(r, EnvelopeField(call.name))
       \/ LET r == [kind |-> "err", status |-> 0, body |-> NotJSON]
          IN  /\ call' = [call EXCEPT !.phase = "done", !.resp = r]
              /\ returned' = ListReturn(r, EnvelopeField(call.name))
    /\ UNCHANGED <<query, output>>
    /\ UNCHANGED <<pipeVars, sendVars, procs>>

\* ListOrganizations up to the executor's call (GetUser sends no parameters).
ListOrganizationsCall ==
    /\ CmdIdle
    /\ call' = Started("organizations", 0)
    /\ query' = NoParams
    /\ returned' = NoReturn
    /\ output' = <<>>
    /\ UNCHANGED <<pipeVars, sendVars, procs>>

\* ListOrganizations from the executor's return on.
ListOrganizationsReturn ==
    /\ call.phase = "sent"
    /\ call.name = "organizations"
    /\ \/ \E status \in {200, 201, 500}, ms \in Profiles, valid \in BOOLEAN :
            LET r == [kind |-> "ok", status |-> status,
                      body |-> IF valid THEN Object("user", User(ms)) ELSE NotJSON]
            IN  /\ call' = [call EXCEPT !.phase = "done", !.resp = r]
                /\ returned' = ListOrganizations(r)
       \/ \E r \in {[kind |-> "err", status |-> 0, body |-> NotJSON],
                    [kind |-> "ok", status |-> 200, body |-> Object("message", <<>>)]} :
            /\ call' = [call EXCEPT !.phase = "done", !.resp = r]
            /\ returned' = ListOrganizations(r)
    /\ UNCHANGED <<query, output>>
    /\ UNCHANGED <<pipeVars, sendVars, procs>>

\* GetScanAlerts up to the executor's call (Get sends no parameters).
GetScanAlertsCall ==
    /\ CmdIdle
    /\ call' = Started("alerts", 0)
    /\ query' = NoParams
    /\ returned' = NoReturn
    /\ output' = <<>>
    /\ UNCHANGED <<pipeVars, sendVars, procs>>

\* GetScanAlerts from the executor's return on.
GetScanAlertsReturn ==
    /\ call.phase = "sent"
    /\ call.name = "alerts"
    /\ \/ \E status \in {200, 201, 500}, results \in ScanResults, valid \in BOOLEAN :
            LET r == [kind |-> "ok", status |-> status,
                      body |-> IF valid THEN Object("applicationScanResults", results)
                               ELSE NotJSON]
            IN  /\ call' = [call EXCEPT !.phase = "done", !.resp = r]
                /\ returned' = ScanAlertsReturn(r)
       \/ \E r \in {[kind |-> "err", status |-> 0, body |-> NotJSON],
                    [kind |-> "ok", status |-> 200, body |-> Object("message", <<>>)]} :
            /\ call' = [call EXCEPT !.phase = "done", !.resp = r]
            /\ returned' = ScanAlertsReturn(r)
    /\ UNCHANGED <<query, output>>
    /\ UNCHANGED <<pipeVars, sendVars, procs>>

\* runStatus (hawkop status), the API key section, for the key in the file.
RunStatus(key) ==
    /\ CmdIdle
    /\ call' = [Started("status", 0) EXCEPT !.phase = "done", !.key = key]
    /\ output' = IF key = <<>>
                 THEN <<"API Key: Not configured", "Run 'hawkop init' to set up your API key">>
                 ELSE <<"API Key: Configured", "Key: ">> \o MaskedKey(key)
    /\ query' = NoParams
    /\ returned' = NoReturn
    /\ UNCHANGED <<pipeVars, sendVars, procs>>

\* promptForAPIKey (hawkop init), up to the prompt, for the key in the file.
PromptForAPIKey(key) ==
    /\ CmdIdle
    /\ call' = [Started("init", 0) EXCEPT !.phase = "done", !.key = key]
    /\ output' = IF key # <<>>
                 THEN <<"Current API key: ">> \o MaskedKey(key)
                      \o <<"Enter new API key (or press Enter to keep current): ">>
                 ELSE <<"Enter your StackHawk API key: ">>
    /\ query' = NoParams
    /\ returned' = NoReturn
    /\ UNCHANGED <<pipeVars, sendVars, procs>>

\* No executor call under way.
NoRequest ==
    [phase |-> "none", method |-> "", query |-> NoParams, ContentLength |-> 0,
     Body |-> <<>>, GetBody |-> <<>>, auth |-> "", payload |-> <<>>, sends |-> 0,
     err |-> ""]

\* No goroutine started.
NoProcs == [g \in {1, 2} |-> [pc |-> "idle", saw |-> "", got |-> "", header |-> ""]]

\* A client with a key and no token; nothing is under way.
CmdInit ==
    /\ apiKey = "key-1"
    /\ orgID = "org-1"
    /\ jwt = NilJWT
    /\ disk = ConfigRecord(apiKey, orgID, jwt)
    /\ lastRequest = ZeroTime
    /\ now = 0
    /\ pc = "idle"
    /\ result = NoResult
    /\ log = <<>>
    /\ lastOutbound = ZeroTime
    /\ firstCallAt = ZeroTime
    /\ minGap = NoGap
    /\ nCalls = 0
    /\ nOps = 0
    /\ call = NoCall
    /\ query = NoParams
    /\ returned = NoReturn
    /\ output = <<>>
    /\ req = NoRequest
    /\ wire = <<>>
    /\ procs = NoProcs

CmdNext ==
    \/ \E name \in {"members", "teams", "applications"} : ListCall(name)
    \/ \E opts \in OptionsInputs : ListOrganizationScansWithOptions(opts)
    \/ ListOrganizationScans
    \/ \E ps \in PageSizes, pt \in PageTokens, sb \in SortFields, sd \in SortDirs :
          RunScanList(ps, pt, sb, sd)
    \/ \E ps \in PageSizes \ {0 - 1, 0}, sf \in SortFields : GetWithStandardParams(ps, sf)
    \/ ListAccessorReturn
    \/ ListOrganizationsCall
    \/ ListOrganizationsReturn
    \/ \E key \in KeyInputs : RunStatus(key)
    \/ \E key \in KeyInputs : PromptForAPIKey(key)
    \/ \E overrides \in ParamInputs : GetWithStandardOverrides(overrides)
    \/ \E params \in ParamInputs : GetWithParams(params)
    \/ GetScanAlertsCall
    \/ GetScanAlertsReturn

CommandSpec == CmdInit /\ [][CmdNext]_vars

----------------------------------------------------------------------------
(* The *http.Request of one executor call: DoAuthenticatedRequestWithParams *)
(* builds it once and makeRequestWithRetry hands the same object to         *)
(* HTTPClient.Do for the first send and for the resend.                     *)

\* The body argument of Post and Put: nil, or a string value.
NilBody == [nil |-> TRUE, value |-> <<>>]

Value(v) == [nil |-> FALSE, value |-> v]

BodyInputs == {NilBody, Value(<<>>), Value(<<"a", "b">>)}

\* Get, GetWithParams, Delete, Post and Put: what each hands to the executor.
ExecutorCalls ==
    {[method |-> "GET", body |-> NilBody, params |-> ps] : ps \in ParamInputs}
    \cup {[method |-> "DELETE", body |-> NilBody, params |-> NoParams]}
    \cup {[method |-> mt, body |-> b, params |-> NoParams] :
            mt \in {"POST", "PUT"}, b \in BodyInputs}

\* json.Marshal of a string that needs no escaping.
Marshal(v) == <<"\"">> \o v \o <<"\"">>

\* DoAuthenticatedRequestWithParams from the body to the headers:
\* http.NewRequest over a *bytes.Buffer takes ContentLength from the buffer,
\* reads Body from it and keeps its bytes for GetBody.
NewRequest(method, params, body, token) ==
    LET buf == IF body.nil THEN <<>> ELSE Marshal(body.value)
    IN  [phase |-> "built", method |-> method, query |-> QueryOnWire(params),
         ContentLength |-> Len(buf), Body |-> buf, GetBody |-> buf, auth |-> token,
         payload |-> buf, sends |-> 0, err |-> ""]

\* What the server receives of a request.
Message(r, body) == [method |-> r.method, query |-> r.query, auth |-> r.auth, body |-> body]

\* HTTPClient.Do(req): the transport writes ContentLength bytes read from
\* req.Body, which leaves Body drained.  When Body yields fewer bytes nothing
\* is written; on a reused connection the transport then starts over with
\* the bytes of GetBody, on a new connection Do returns the error.
Do(r, reused) ==
    IF Len(r.Body) = r.ContentLength
    THEN [sent |-> TRUE, message |-> Message(r, r.Body)]
    ELSE IF reused THEN [sent |-> TRUE, message |-> Message(r, r.GetBody)]
    ELSE [sent |-> FALSE, message |-> Message(r, <<>>)]

\* The request object after a Do.
AfterDo(r, d, phase, wrap) ==
    [r EXCEPT !.phase = phase, !.Body = <<>>, !.sends = r.sends + 1,
              !.err = IF d.sent THEN "" ELSE wrap]

\* DoAuthenticatedRequestWithParams up to the first Do.
ExecutorCall(c, token) ==
    /\ req.phase = "none"
    /\ LET r == NewRequest(c.method, c.params, c.body, token)
           d == Do(r, FALSE)
       IN  /\ req' = AfterDo(r, d, "sent", "request failed")
           /\ wire' = <<d.message>>
    /\ UNCHANGED <<pipeVars, cmdVars, procs>>

\* makeRequestWithRetry, the 401 case once EnsureValidJWT has returned a new
\* token: the header is set on the same request, which is handed to Do again.
Resend401(token, reused) ==
    /\ req.phase = "sent"
    /\ LET r == [req EXCEPT !.auth = token]
           d == Do(r, reused)
       IN  /\ req' = AfterDo(r, d, "done", "retry request failed")
           /\ wire' = IF d.sent THEN Append(wire, d.message) ELSE wire
    /\ UNCHANGED <<pipeVars, cmdVars, procs>>

\* makeRequestWithRetry, the 429 case after the sleep: the same request is
\* handed to Do again.
Resend429(reused) ==
    /\ req.phase = "sent"
    /\ LET d == Do(req, reused)
       IN  /\ req' = AfterDo(req, d, "done", "retry after rate limit failed")
           /\ wire' = IF d.sent THEN Append(wire, d.message) ELSE wire
    /\ UNCHANGED <<pipeVars, cmdVars, procs>>

\* makeRequestWithRetry, any other status: nothing is resent.
NoResend ==
    /\ req.phase = "sent"
    /\ req' = [req EXCEPT !.phase = "done"]
    /\ UNCHANGED wire
    /\ UNCHANGED <<pipeVars, cmdVars, procs>>

ResendNext ==
    \/ \E c \in ExecutorCalls, token \in {"jwt-old", "jwt-new"} : ExecutorCall(c, token)
    \/ \E token \in {"jwt-new", "jwt-newer"}, reused \in BOOLEAN : Resend401(token, reused)
    \/ \E reused \in BOOLEAN : Resend429(reused)
    \/ NoResend

ResendSpec == CmdInit /\ [][ResendNext]_vars

----------------------------------------------------------------------------
(* The state machine of the request pipeline *)

InitialJWTs ==
    {NilJWT,
     SetJWT("jwt-old", 60 * MsPerMinute),
     SetJWT("jwt-old", 0),
     SetJWT("jwt-old", 0 - MsPerMinute),
     SetJWT("", 60 * MsPerMinute)}

\* config.Load and NewClient: any config file, a client that has sent nothing.
Init ==
    /\ apiKey \in APIKeys
    /\ orgID = "org-1"
    /\ jwt \in InitialJWTs
    /\ disk = ConfigRecord(apiKey, orgID, jwt)
    /\ lastRequest = ZeroTime
    /\ now = 0
    /\ pc = "idle"
    /\ result = NoResult
    /\ log = <<>>
    /\ lastOutbound = ZeroTime
    /\ firstCallAt = ZeroTime
    /\ minGap = NoGap
    /\ nCalls = 0
    /\ nOps = 0
    /\ call = NoCall
    /\ query = NoParams
    /\ returned = NoReturn
    /\ output = <<>>
    /\ req = NoRequest
    /\ wire = <<>>
    /\ procs = NoProcs

Idle == pc \in {"idle", "done"}

\* The token of the Authorization header the request object carries.
SentToken == log[CHOOSE i \in DOMAIN log : log[i].ev = "send"].tok

Slept == \E i \in DOMAIN log : log[i].ev = "sleep"

\* DoAuthenticatedRequestWithParams, its call and EnsureValidJWT up to the
\* login request.
Call ==
    /\ Idle
    /\ nOps < MaxOps
    /\ nOps' = nOps + 1
    /\ firstCallAt' = IF firstCallAt = ZeroTime THEN now ELSE firstCallAt
    /\ LET d == EnsureValidJWT(apiKey, jwt, now)
       IN  CASE d = "ok" ->
                  /\ pc' = "ready"
                  /\ log' = <<Ev("ensure_ok", now, "", 0, 0)>>
                  /\ result' = NoResult
                  /\ UNCHANGED <<lastOutbound, minGap, nCalls>>
             [] d = "nocreds" ->
                  /\ pc' = "done"
                  /\ log' = <<Ev("ensure_err", now, "", 0, 0)>>
                  /\ result' = NoCredentials
                  /\ UNCHANGED <<lastOutbound, minGap, nCalls>>
             [] d = "login" ->
                  /\ pc' = "auth"
                  /\ log' = <<Ev("login", now, apiKey, 0, 0)>>
                  /\ result' = NoResult
                  /\ lastOutbound' = now
                  /\ minGap' = Outbound(now, lastOutbound, minGap)
                  /\ UNCHANGED nCalls
    /\ UNCHANGED <<apiKey, orgID, jwt, disk, lastRequest, now>>
    /\ UNCHANGED outerVars

\* Faulty variant of LoginReturn: the executor wraps EnsureValidJWT's error
\* and goes through respectRateLimit before it returns it.
LoginReturnWrapsError ==
    /\ pc = "auth"
    /\ \E a \in LoginAnswers, saveOk \in BOOLEAN, lat \in LoginLatencies :
         LET t == now + lat
             r == Authenticate(a, saveOk, t)
         IN  /\ now' = t
             /\ jwt' = r.jwt
             /\ disk' = r.disk
             /\ IF r.err.kind = "err"
                THEN /\ pc' = "done"
                     /\ result' = Wrap("failed to ensure token", r.err)
                     /\ log' = log \o <<LoginRecv("ensure_err", t, a, r.save),
                                        Ev("throttle", t, "", 0, 0)>>
                ELSE /\ pc' = "ready"
                     /\ log' = Append(log, LoginRecv("ensure_ok", t, a, r.save))
                     /\ UNCHANGED result
    /\ UNCHANGED <<apiKey, orgID, lastRequest, lastOutbound, firstCallAt, minGap, nCalls,
                   nOps>>
    /\ UNCHANGED outerVars

\* authenticate from the login answer on, and EnsureValidJWT's return into
\* DoAuthenticatedRequestWithParams.
LoginReturn ==
    /\ pc = "auth"
    /\ \E a \in LoginAnswers, saveOk \in BOOLEAN, lat \in LoginLatencies :
         LET t == now + lat
             r == Authenticate(a, saveOk, t)
         IN  /\ now' = t
             /\ jwt' = r.jwt
             /\ disk' = r.disk
             /\ IF r.err.kind = "err"
                THEN /\ pc' = "done"
                     /\ result' = r.err
                     /\ log' = Append(log, LoginRecv("ensure_err", t, a, r.save))
                ELSE /\ pc' = "ready"
                     /\ log' = Append(log, LoginRecv("ensure_ok", t, a, r.save))
                     /\ UNCHANGED result
    /\ UNCHANGED <<apiKey, orgID, lastRequest, lastOutbound, firstCallAt, minGap, nCalls,
                   nOps>>
    /\ UNCHANGED outerVars

\* DoAuthenticatedRequestWithParams from respectRateLimit to the first send.
\* Reading c.config.JWT.Token through a nil JWT is a nil pointer dereference.
Send ==
    /\ pc = "ready"
    /\ LET s == RateLimitSleep(lastRequest, now)
           t == now + s
       IN  /\ now' = t
           /\ IF ~jwt.present
              THEN /\ pc' = "panic"
                   /\ log' = log \o <<Ev("throttle", now, "", 0, s),
                                      Ev("panic", t, "", 0, 0)>>
                   /\ UNCHANGED <<lastOutbound, minGap>>
              ELSE /\ pc' = "sent"
                   /\ log' = log \o <<Ev("throttle", now, "", 0, s),
                                      Ev("send", t, jwt.Token, 0, 0)>>
                   /\ lastOutbound' = t
                   /\ minGap' = Outbound(t, lastOutbound, minGap)
    /\ UNCHANGED <<apiKey, orgID, jwt, disk, lastRequest, result, firstCallAt, nCalls,
                   nOps>>
    /\ UNCHANGED outerVars

\* makeRequestWithRetry from the first answer to its return or to the next
\* request it sends, and DoAuthenticatedRequestWithParams's return.
Respond ==
    /\ pc = "sent"
    /\ \E a \in FirstAnswers, lat \in Latencies :
         LET t == now + lat
             recv == Recv(t, a)
         IN  CASE a.neterr ->
                    /\ pc' = "done"
                    /\ result' = Err("request failed", 0, "", "")
                    /\ log' = Append(log, recv)
                    /\ now' = t
                    /\ nCalls' = nCalls + 1
                    /\ UNCHANGED <<jwt, lastRequest, lastOutbound, minGap>>
               [] ~a.neterr /\ IsSuccess(a.status) ->
                    /\ pc' = "done"
                    /\ result' = Ok(a.status, a.body)
                    /\ log' = Append(log, recv)
                    /\ now' = t
                    /\ lastRequest' = t
                    /\ nCalls' = nCalls + 1
                    /\ UNCHANGED <<jwt, lastOutbound, minGap>>
               [] ~a.neterr /\ a.status = 401 ->
                    /\ jwt' = ClearJWT
                    /\ now' = t
                    /\ LET d == EnsureValidJWT(apiKey, ClearJWT, t)
                       IN  CASE d = "ok" ->
                                  /\ pc' = "panic"
                                  /\ log' = log \o <<recv, Ev("clear", t, "", 0, 0),
                                                     Ev("ensure_ok", t, "", 0, 0),
                                                     Ev("panic", t, "", 0, 0)>>
                                  /\ UNCHANGED <<result, nCalls, lastOutbound, minGap>>
                             [] d = "nocreds" ->
                                  /\ pc' = "done"
                                  /\ log' = log \o <<recv, Ev("clear", t, "", 0, 0),
                                                     Ev("ensure_err", t, "", 0, 0)>>
                                  /\ result' = Wrap("failed to refresh token after 401",
                                                    NoCredentials)
                                  /\ nCalls' = nCalls + 1
                                  /\ UNCHANGED <<lastOutbound, minGap>>
                             [] d = "login" ->
                                  /\ pc' = "reauth"
                                  /\ log' = log \o <<recv, Ev("clear", t, "", 0, 0),
                                                     Ev("login", t, apiKey, 0, 0)>>
                                  /\ lastOutbound' = t
                                  /\ minGap' = Outbound(t, lastOutbound, minGap)
                                  /\ UNCHANGED <<result, nCalls>>
                    /\ UNCHANGED lastRequest
               [] ~a.neterr /\ a.status = 429 ->
                    LET wait == RetryAfter(a.retryAfter)
                        t2 == t + (IF wait > 0 THEN wait ELSE 0)
                    IN  /\ pc' = "resent"
                        /\ log' = log \o <<recv, Ev("sleep", t, "", 0, wait),
                                           Ev("resend", t2, SentToken, 0, 0)>>
                        /\ now' = t2
                        /\ lastOutbound' = t2
                        /\ minGap' = Outbound(t2, lastOutbound, minGap)
                        /\ UNCHANGED <<jwt, lastRequest, result, nCalls>>
               [] OTHER ->
                    /\ pc' = "done"
                    /\ result' = StatusError(a.status, a.body)
                    /\ log' = Append(log, recv)
                    /\ now' = t
                    /\ nCalls' = nCalls + 1
                    /\ UNCHANGED <<jwt, lastRequest, lastOutbound, minGap>>
    /\ UNCHANGED <<apiKey, orgID, disk, firstCallAt, nOps>>
    /\ UNCHANGED outerVars

\* Faulty variant of ReloginReturn: the resend goes out with the header of
\* the first send, the rejected token.
ReloginReturnRejectedToken ==
    /\ pc = "reauth"
    /\ \E a \in LoginAnswers, saveOk \in BOOLEAN, lat \in Latencies :
         LET t == now + lat
             r == Authenticate(a, saveOk, t)
         IN  /\ now' = t
             /\ jwt' = r.jwt
             /\ disk' = r.disk
             /\ IF r.err.kind = "err"
                THEN /\ pc' = "done"
                     /\ result' = Wrap("failed to refresh token after 401", r.err)
                     /\ log' = Append(log, LoginRecv("ensure_err", t, a, r.save))
                     /\ nCalls' = nCalls + 1
                     /\ UNCHANGED <<lastOutbound, minGap>>
                ELSE /\ pc' = "resent"
                     /\ log' = log \o <<LoginRecv("ensure_ok", t, a, r.save),
                                        Ev("resend", t, SentToken, 0, 0)>>
                     /\ lastOutbound' = t
                     /\ minGap' = Outbound(t, lastOutbound, minGap)
                     /\ UNCHANGED <<result, nCalls>>
    /\ UNCHANGED <<apiKey, orgID, lastRequest, firstCallAt, nOps>>
    /\ UNCHANGED outerVars

\* makeRequestWithRetry, the 401 case from the login answer on: EnsureValidJWT
\* returns, the Authorization header is set again and the request is resent.
ReloginReturn ==
    /\ pc = "reauth"
    /\ \E a \in LoginAnswers, saveOk \in BOOLEAN, lat \in Latencies :
         LET t == now + lat
             r == Authenticate(a, saveOk, t)
         IN  /\ now' = t
             /\ jwt' = r.jwt
             /\ disk' = r.disk
             /\ IF r.err.kind = "err"
                THEN /\ pc' = "done"
                     /\ result' = Wrap("failed to refresh token after 401", r.err)
                     /\ log' = Append(log, LoginRecv("ensure_err", t, a, r.save))
                     /\ nCalls' = nCalls + 1
                     /\ UNCHANGED <<lastOutbound, minGap>>
                ELSE /\ pc' = "resent"
                     /\ log' = log \o <<LoginRecv("ensure_ok", t, a, r.save),
                                        Ev("resend", t, r.jwt.Token, 0, 0)>>
                     /\ lastOutbound' = t
                     /\ minGap' = Outbound(t, lastOutbound, minGap)
                     /\ UNCHANGED <<result, nCalls>>
    /\ UNCHANGED <<apiKey, orgID, lastRequest, firstCallAt, nOps>>
    /\ UNCHANGED outerVars

\* Faulty variant of RetryRespond: a 401 on the resend is handled like the
\* first one (clear, log in, resend) instead of being returned.
RetryRespondAgain ==
    /\ pc = "resent"
    /\ \E a \in Answers, lat \in Latencies :
         LET t == now + lat
         IN  /\ now' = t
             /\ IF ~a.neterr /\ a.status = 401 /\ ~Slept /\ HasValidCredentials(apiKey)
                THEN /\ pc' = "reauth"
                     /\ jwt' = ClearJWT
                     /\ log' = log \o <<Recv(t, a), Ev("clear", t, "", 0, 0),
                                        Ev("login", t, apiKey, 0, 0)>>
                     /\ lastOutbound' = t
                     /\ minGap' = Outbound(t, lastOutbound, minGap)
                     /\ UNCHANGED <<result, nCalls, lastRequest>>
                ELSE /\ pc' = "done"
                     /\ log' = Append(log, Recv(t, a))
                     /\ nCalls' = nCalls + 1
                     /\ IF a.neterr
                        THEN /\ result' = Err("retry request failed", 0, "", "")
                             /\ UNCHANGED lastRequest
                        ELSE /\ result' = Ok(a.status, a.body)
                             /\ lastRequest' = t
                     /\ UNCHANGED <<jwt, lastOutbound, minGap>>
    /\ UNCHANGED <<apiKey, orgID, disk, firstCallAt, nOps>>
    /\ UNCHANGED outerVars

\* Faulty variant of RetryRespond: a 429 on the resend after a 401 is waited
\* for and resent like a first 429.
RetryRespondChained ==
    /\ pc = "resent"
    /\ \E a \in Answers, lat \in Latencies :
         LET t == now + lat
         IN  IF ~a.neterr /\ a.status = 429 /\ ~Slept
             THEN LET t2 == t + RetryAfter(a.retryAfter)
                  IN  /\ pc' = "resent"
                      /\ now' = t2
                      /\ log' = log \o <<Recv(t, a), Ev("sleep", t, "", 0, t2 - t),
                                         Ev("resend", t2, SentToken, 0, 0)>>
                      /\ UNCHANGED <<result, nCalls, lastRequest, jwt>>
             ELSE /\ now' = t
                  /\ pc' = "done"
                  /\ log' = Append(log, Recv(t, a))
                  /\ nCalls' = nCalls + 1
                  /\ UNCHANGED jwt
                  /\ IF a.neterr
                     THEN /\ result' = Err("retry request failed", 0, "", "")
                          /\ UNCHANGED lastRequest
                     ELSE /\ result' = Ok(a.status, a.body)
                          /\ lastRequest' = t
    /\ UNCHANGED <<apiKey, orgID, disk, lastOutbound, firstCallAt, minGap, nOps>>
    /\ UNCHANGED outerVars

\* Faulty variant of RetryRespond: a 401 on the resend clears the cached token
\* before it is returned.
RetryRespondClears ==
    /\ pc = "resent"
    /\ \E a \in Answers, lat \in Latencies :
         LET t == now + lat
         IN  /\ now' = t
             /\ pc' = "done"
             /\ log' = Append(log, Recv(t, a))
             /\ nCalls' = nCalls + 1
             /\ jwt' = IF ~a.neterr /\ a.status = 401 THEN ClearJWT ELSE jwt
             /\ IF a.neterr
                THEN /\ result' = Err(IF Slept THEN "retry after rate limit failed"
                                      ELSE "retry request failed", 0, "", "")
                     /\ UNCHANGED lastRequest
                ELSE /\ result' = Ok(a.status, a.body)
                     /\ lastRequest' = t
    /\ UNCHANGED <<apiKey, orgID, disk, lastOutbound, firstCallAt, minGap, nOps>>
    /\ UNCHANGED outerVars

\* makeRequestWithRetry from the resend's answer on: whatever the status, the
\* response is returned, and DoAuthenticatedRequestWithParams returns it.
RetryRespond ==
    /\ pc = "resent"
    /\ \E a \in Answers, lat \in Latencies :
         LET t == now + lat
         IN  /\ now' = t
             /\ pc' = "done"
             /\ log' = Append(log, Recv(t, a))
             /\ nCalls' = nCalls + 1
             /\ IF a.neterr
                THEN /\ result' = Err(IF Slept THEN "retry after rate limit failed"
                                      ELSE "retry request failed", 0, "", "")
                     /\ UNCHANGED lastRequest
                ELSE /\ result' = Ok(a.status, a.body)
                     /\ lastRequest' = t
    /\ UNCHANGED <<apiKey, orgID, jwt, disk, lastOutbound, firstCallAt, minGap,
                   nOps>>
    /\ UNCHANGED outerVars

\* Faulty variant of SetAPIKey: the token is cleared only when the key differs.
SetAPIKeyIfChanged(k) ==
    /\ Idle
    /\ nOps < MaxOps
    /\ nOps' = nOps + 1
    /\ apiKey' = k
    /\ jwt' = IF k = apiKey THEN jwt ELSE NilJWT
    /\ pc' = "idle"
    /\ result' = NoResult
    /\ log' = <<Ev("setkey", now, k, 0, 0)>>
    /\ UNCHANGED <<orgID, disk, lastRequest, now, lastOutbound, firstCallAt, minGap, nCalls>>
    /\ UNCHANGED outerVars

\* Config.SetAPIKey
SetAPIKey(k) ==
    /\ Idle
    /\ nOps < MaxOps
    /\ nOps' = nOps + 1
    /\ apiKey' = k
    /\ jwt' = NilJWT
    /\ pc' = "idle"
    /\ result' = NoResult
    /\ log' = <<Ev("setkey", now, k, 0, 0)>>
    /\ UNCHANGED <<orgID, disk, lastRequest, now, lastOutbound, firstCallAt, minGap, nCalls>>
    /\ UNCHANGED outerVars

\* Time passes between two operations.
Elapse(d) ==
    /\ Idle
    /\ nOps < MaxOps
    /\ nOps' = nOps + 1
    /\ now' = now + d
    /\ pc' = "idle"
    /\ result' = NoResult
    /\ log' = <<>>
    /\ UNCHANGED <<apiKey, orgID, jwt, disk, lastRequest, lastOutbound, firstCallAt,
                   minGap, nCalls>>
    /\ UNCHANGED outerVars

Next ==
    \/ Call
    \/ LoginReturn
    \/ Send
    \/ Respond
    \/ ReloginReturn
    \/ RetryRespond
    \/ \E k \in APIKeys : SetAPIKey(k)
    \/ \E d \in ElapseSteps : Elapse(d)

Spec == Init /\ [][Next]_vars

----------------------------------------------------------------------------
(* Two goroutines calling the executor on one Client: EnsureValidJWT and    *)
(* authenticate hold no lock, so their reads and writes of Config.JWT and   *)
(* of the config file interleave.                                           *)

Goroutines == {1, 2}

Other(g) == 3 - g

\* The login answers of this section: each accepted login is issued a token
\* of its own.
RaceTokens == {"jwt-1", "jwt-2"}

RaceAnswers ==
    {a \in LoginAnswers : a.neterr \/ a.status # 200 \/ ~a.decodes}
    \cup {[a EXCEPT !.token = tok] :
            a \in {b \in LoginAnswers : ~b.neterr /\ b.status = 200 /\ b.decodes},
            tok \in RaceTokens}

\* Faulty variant of RaceCheck: a goroutine that finds a login under way waits
\* for it instead of logging in.
RaceCheckSingleFlight(g) ==
    /\ procs[g].pc = "idle"
    /\ LET d == EnsureValidJWT(apiKey, jwt, now)
       IN  procs' = [procs EXCEPT ![g].pc =
                        IF procs[Other(g)].pc \in {"login", "save"} THEN "wait"
                        ELSE IF d = "login" THEN "login" ELSE "ready",
                                  ![g].saw = IF d = "ok" THEN "valid" ELSE "invalid"]
    /\ UNCHANGED <<pipeVars, cmdVars, sendVars>>

\* EnsureValidJWT in goroutine g up to its return or its login request.
RaceCheck(g) ==
    /\ procs[g].pc = "idle"
    /\ LET d == EnsureValidJWT(apiKey, jwt, now)
       IN  procs' = [procs EXCEPT ![g].pc = IF d = "login" THEN "login" ELSE "ready",
                                  ![g].saw = IF d = "ok" THEN "valid" ELSE "invalid"]
    /\ UNCHANGED <<pipeVars, cmdVars, sendVars>>

\* authenticate in goroutine g from the login answer to SetJWT.
RaceLoginReturn(g) ==
    /\ procs[g].pc = "login"
    /\ \E a \in RaceAnswers, lat \in Latencies :
         LET t == now + lat
             r == Authenticate(a, TRUE, t)
         IN  /\ now' = t
             /\ IF r.err.kind = "err"
                THEN /\ procs' = [procs EXCEPT ![g].pc = "failed"]
                     /\ UNCHANGED jwt
                ELSE /\ procs' = [procs EXCEPT ![g].pc = "save", ![g].got = a.token]
                     /\ jwt' = r.jwt
    /\ UNCHANGED <<apiKey, orgID, disk, lastRequest, pc, result, log, lastOutbound,
                   firstCallAt, minGap, nCalls, nOps>>
    /\ UNCHANGED <<cmdVars, sendVars>>

\* authenticate in goroutine g, its Save: the file gets the config as it is in
\* memory at that moment.
RaceSave(g) ==
    /\ procs[g].pc = "save"
    /\ \E saveOk \in BOOLEAN :
         /\ disk' = Save(saveOk, apiKey, orgID, jwt)
         /\ procs' = [procs EXCEPT ![g].pc = IF saveOk THEN "ready" ELSE "failed"]
    /\ UNCHANGED <<apiKey, orgID, jwt, lastRequest, now, pc, result, log, lastOutbound,
                   firstCallAt, minGap, nCalls, nOps>>
    /\ UNCHANGED <<cmdVars, sendVars>>

\* DoAuthenticatedRequestWithParams in goroutine g: the Authorization header
\* is read from the config.
RaceHeader(g) ==
    /\ procs[g].pc = "ready"
    /\ procs' = [procs EXCEPT ![g].pc = IF jwt.present THEN "sent" ELSE "panic",
                              ![g].header = jwt.Token]
    /\ UNCHANGED <<pipeVars, cmdVars, sendVars>>

\* A client with a key and any cached token; no goroutine has started.
RaceInit ==
    /\ apiKey = "key-1"
    /\ orgID = "org-1"
    /\ jwt \in InitialJWTs
    /\ disk = ConfigRecord(apiKey, orgID, jwt)
    /\ lastRequest = ZeroTime
    /\ now = 0
    /\ pc = "idle"
    /\ result = NoResult
    /\ log = <<>>
    /\ lastOutbound = ZeroTime
    /\ firstCallAt = ZeroTime
    /\ minGap = NoGap
    /\ nCalls = 0
    /\ nOps = 0
    /\ call = NoCall
    /\ query = NoParams
    /\ returned = NoReturn
    /\ output = <<>>
    /\ req = NoRequest
    /\ wire = <<>>
    /\ procs = NoProcs

RaceNext ==
    \E g \in Goroutines :
        \/ RaceCheck(g)
        \/ RaceLoginReturn(g)
        \/ RaceSave(g)
        \/ RaceHeader(g)

RaceSpec == RaceInit /\ [][RaceNext]_vars

----------------------------------------------------------------------------
(* Reading the history of the running operation *)

N(s, ev) == Cardinality({i \in DOMAIN s : s[i].ev = ev})

Kinds(s) == [i \in DOMAIN s |-> s[i].ev]

HasAnswer == \E i \in DOMAIN log : log[i].ev = "recv"

FirstAnswerIdx ==
    CHOOSE i \in DOMAIN log :
        log[i].ev = "recv" /\ \A j \in 1..(i - 1) : log[j].ev # "recv"

\* The answer to the first send of the resource request.
FirstAnswer == log[FirstAnswerIdx]

\* What the operation did after that answer arrived.
AfterFirstAnswer == SubSeq(log, FirstAnswerIdx + 1, Len(log))

LastEvent == log[Len(log)]

First401 == HasAnswer /\ FirstAnswer.code = 401

First429 == HasAnswer /\ FirstAnswer.code = 429

Ended == pc \in {"done", "panic"}

----------------------------------------------------------------------------
(* The claims *)

\* C1 as stated: in every operation that returns and whose first send is
\* answered 401, exactly one login is made after that answer and the request
\* is resent exactly once.  (Fails: a login that fails is not followed by a
\* resend.)
C1_ExactlyOneLoginAndResend ==
    (pc = "done" /\ First401) =>
        /\ N(AfterFirstAnswer, "login") = 1
        /\ N(AfterFirstAnswer, "resend") = 1

\* C1 as amended: after a first answer of 401 the operation makes at most one
\* login - exactly one when an API key is configured - and resends the request
\* exactly once when that login succeeds and not at all otherwise; whatever
\* the resend is answered (a second 401 included), no further login and no
\* further resend follow.
C1_OneLoginThenOneResend ==
    First401 =>
        LET tail == AfterFirstAnswer
        IN  /\ N(tail, "login") <= 1
            /\ N(tail, "resend") <= 1
            /\ N(tail, "recv") <= N(tail, "resend")
            /\ N(tail, "resend") = 1 => (N(tail, "login") = 1 /\ N(tail, "ensure_ok") = 1)
            /\ N(tail, "recv") = 1 => (pc = "done" /\ LastEvent.ev = "recv")
            /\ Ended =>
                 /\ apiKey # "" => N(tail, "login") = 1
                 /\ (N(tail, "login") = 1 /\ N(tail, "ensure_ok") = 1)
                        => (N(tail, "resend") = 1 /\ N(tail, "recv") = 1)
                 /\ N(tail, "ensure_err") = 1 => N(tail, "resend") = 0

\* C1, its case: a first 401, one login, one resend, and a second 401 returned.
C1_Witness ==
    /\ pc = "done"
    /\ First401
    /\ LastEvent.ev = "recv" /\ LastEvent.code = 401
    /\ N(AfterFirstAnswer, "login") = 1
    /\ N(AfterFirstAnswer, "resend") = 1

\* C2: when the first send and the resend after the login are both answered
\* 401, the executor and every accessor on top of it return an error.
\* (Fails: the resend's response is returned as a success whatever its status,
\* and the list accessors decode its body without looking at the status.)
C2_Second401IsAnError ==
    (pc = "done" /\ First401 /\ LastEvent.ev = "recv" /\ LastEvent.code = 401
                 /\ N(AfterFirstAnswer, "recv") = 1) =>
        /\ result.kind = "err"
        /\ GetUser(result).kind = "err"
        /\ ListAccessor(result).kind = "err"
        /\ GetScanAlerts(result).kind = "err"

\* The wait C3 expects for a Retry-After header value, in ms: its number of
\* seconds when it is an integer, 60 s otherwise.
ExpectedWait(h) ==
    CASE h = "0" -> 0
      [] h = "2" -> 2000
      [] OTHER -> 60000

\* C3: after a first answer of 429 the executor sleeps once, for the seconds
\* of the Retry-After header when it is an integer and for 60 s otherwise,
\* resends the request once when the sleep is over, and returns what the
\* resend yields: nothing follows the resend's answer, be it 429 or 401.
C3_OneWaitThenOneResend ==
    First429 =>
        LET tail == AfterFirstAnswer
            wait == ExpectedWait(FirstAnswer.hdr)
        IN  /\ Len(tail) \in {2, 3}
            /\ tail[1].ev = "sleep" /\ tail[1].dur = wait
            /\ tail[2].ev = "resend" /\ tail[2].at = FirstAnswer.at + wait
            /\ Len(tail) = 2 => pc = "resent"
            /\ Len(tail) = 3 =>
                 /\ tail[3].ev = "recv"
                 /\ pc = "done"
                 /\ now = tail[3].at
                 /\ IF tail[3].code = 0 THEN result.kind = "err"
                    ELSE result = Ok(tail[3].code, tail[3].body)

\* C3, its case: a 429 with Retry-After: 2, and the resend answered 429 again.
C3_Witness ==
    /\ pc = "done"
    /\ First429
    /\ FirstAnswer.hdr = "2"
    /\ LastEvent.ev = "recv" /\ LastEvent.code = 429
    /\ N(log, "sleep") = 1

\* A step that calls the executor, and with it EnsureValidJWT.
CallStep == Idle /\ Len(log') = 1 /\ log'[1].ev \in {"ensure_ok", "ensure_err", "login"}

C5_NoCredentials ==
    (Len(log) = 1 /\ log[1].ev \in {"ensure_ok", "ensure_err", "login"}
                  /\ apiKey = "" /\ ~IsValid(jwt, now)) =>
        (pc = "done" /\ result = NoCredentials)

\* C6: N executor calls in a row take at least (N-1) * MinInterval, counting
\* only the calls that sent their request, whatever came back.  (Fails:
\* lastRequest is set only when a call returns a response.)
C6_CallsTakeMinInterval ==
    pc = "done" => now - firstCallAt >= (nCalls - 1) * MinInterval

\* C7: two consecutive HTTP requests of one client start at least MinInterval
\* apart.  (Fails: logins and resends are not rate limited.)
C7_RequestsSpaced == minGap = NoGap \/ minGap >= MinInterval

\* C8: an answer with a status from 200 to 299 is returned as a success, and
\* only such answers are.  (Fails: 204 is reported as an API error, and a
\* resend's answer is returned as a success whatever its status.)
C8_Every2xxSucceeds ==
    (pc = "done" /\ HasAnswer /\ LastEvent.ev = "recv") =>
        /\ LastEvent.code \in 200..299 => result = Ok(LastEvent.code, LastEvent.body)
        /\ result.kind = "ok" => LastEvent.code \in 200..299

\* C9: a first answer of 400, 403, 404, 409 or 422 ends the operation at once
\* with an error that prints that status code and the response body (for 404,
\* "not found"); no login, wait or resend follows, and a list accessor hands
\* the error on unchanged.
C9_ClientErrorFailsAtOnce ==
    (HasAnswer /\ FirstAnswer.code \in {400, 403, 404, 409, 422}) =>
        /\ pc = "done"
        /\ AfterFirstAnswer = <<>>
        /\ now = FirstAnswer.at
        /\ result.kind = "err"
        /\ result.code = FirstAnswer.code
        /\ result.body = FirstAnswer.body
        /\ FirstAnswer.code = 404 => result.text = "not found"
        /\ ListAccessor(result) = result

\* C9, its case: a 404 with a body was the first answer.
C9_Witness ==
    /\ pc = "done"
    /\ HasAnswer
    /\ FirstAnswer.code = 404
    /\ FirstAnswer.body # ""
    /\ result.code = 404

\* C10: right after SetAPIKey the API key is the new one and no token is
\* cached, whatever the token and the key were before.
C10_SetAPIKeyClearsToken ==
    (Len(log) = 1 /\ log[1].ev = "setkey") =>
        (apiKey = log[1].tok /\ jwt = NilJWT)

\* C10, its case: SetAPIKey with the key already configured, while a valid
\* token was cached (the file still shows the config as it was).
C10_Witness ==
    /\ nOps = 1
    /\ Len(log) = 1 /\ log[1].ev = "setkey"
    /\ disk.APIKey = apiKey
    /\ IsValid(disk.JWT, now)
    /\ ~jwt.present

\* C11: JWT.IsExpired is true for an absent token and from the expiry instant
\* on (now >= expiresAt), false before it.  (Fails: time.Now().After is a
\* strict comparison, so at now = expiresAt the token is not expired.)
C11_ExpiredFromExpiryOn ==
    IsExpired(jwt, now) <=> (~jwt.present \/ now >= jwt.ExpiresAt)

\* C12: a cached token with an empty value is not used, even when its expiry
\* lies ahead: with an API key, the executor's EnsureValidJWT logs in, and no
\* resource request carries an empty bearer token.  (Fails: NeedsJWTRefresh
\* looks at the expiry only, not at the token's value.)
C12_EmptyTokenIsRefreshed ==
    /\ (Len(log) = 1 /\ log[1].ev \in {"ensure_ok", "ensure_err", "login"}
           /\ apiKey # "" /\ jwt.present /\ jwt.Token = "" /\ ~IsExpired(jwt, now))
          => log[1].ev = "login"
    /\ \A i \in DOMAIN log : log[i].ev \in {"send", "resend"} => log[i].tok # ""

\* C16: when the first answer is 429 and the resend after the wait is answered
\* with a status outside 200..299, the list accessor returns an error with
\* that status and body, never a decoded list.  (Fails: the resend's response
\* is returned as a success whatever its status, see C2.)
C16_FailedResendIsAnError ==
    (pc = "done" /\ First429 /\ LastEvent.ev = "recv" /\ LastEvent.code # 0
                 /\ N(AfterFirstAnswer, "recv") = 1
                 /\ LastEvent.code \notin 200..299) =>
        /\ ListAccessor(result).kind = "err"
        /\ ListAccessor(result).code = LastEvent.code
        /\ ListAccessor(result).body = LastEvent.body

\* The last login of the running operation and, once it has arrived, its answer.
LastLoginIdx ==
    CHOOSE i \in DOMAIN log :
        log[i].ev = "login" /\ \A j \in (i + 1)..Len(log) : log[j].ev # "login"

LoginAnswered == N(log, "login") > 0 /\ LastLoginIdx < Len(log)

LoginCall == log[LastLoginIdx]

LoginAnswerEv == log[LastLoginIdx + 1]

\* The token in the config is the one the operation's last login cached.
CachedByLastLogin ==
    /\ LoginAnswered
    /\ LoginAnswerEv.save # ""
    /\ \A j \in (LastLoginIdx + 1)..Len(log) : log[j].ev # "clear"

\* The expiry a login answer carries: its instant, the zero time when it is
\* 0001-01-01T00:00:00Z.
CarriedExpiry(e) == IF e.hdr = "zero" THEN ZeroTime ELSE e.at + e.dur

\* C17 as stated: a login answered 200 without an expiry caches a token that
\* expires between 29 and 31 minutes after the call; an answer that carries an
\* expiry has it stored unchanged.  (Fails: an expires_at of the zero time is
\* replaced by the 30-minute default.)
C17_DefaultOrCarriedExpiry ==
    CachedByLastLogin =>
        /\ LoginAnswerEv.hdr = "" =>
             /\ jwt.ExpiresAt - LoginCall.at >= 29 * MsPerMinute
             /\ jwt.ExpiresAt - LoginCall.at <= 31 * MsPerMinute
        /\ LoginAnswerEv.hdr # "" => jwt.ExpiresAt = CarriedExpiry(LoginAnswerEv)

\* C17 as amended: a login answered 200 without an expiry, or with the zero
\* time as its expiry, caches a token that expires 30 minutes after the answer
\* was decoded, which is between 29 and 31 minutes after the call; any other
\* expiry the answer carries is stored unchanged, with the answer's token.
C17_DefaultOrNonZeroExpiry ==
    CachedByLastLogin =>
        /\ jwt.present
        /\ jwt.Token = LoginAnswerEv.tok
        /\ LoginAnswerEv.hdr \in {"", "zero"} =>
             /\ jwt.ExpiresAt = LoginAnswerEv.at + DefaultTokenMinutes * MsPerMinute
             /\ jwt.ExpiresAt - LoginCall.at >= 29 * MsPerMinute
             /\ jwt.ExpiresAt - LoginCall.at <= 31 * MsPerMinute
        /\ LoginAnswerEv.hdr = "time" => jwt.ExpiresAt = CarriedExpiry(LoginAnswerEv)

\* C17, its case: a login without an expiry, answered just within the timeout.
C17_Witness ==
    /\ CachedByLastLogin
    /\ LoginAnswerEv.hdr = ""
    /\ LoginAnswerEv.at - LoginCall.at = HTTPTimeoutSec * MsPerSecond
    /\ jwt.ExpiresAt > LoginCall.at + DefaultTokenMinutes * MsPerMinute

\* C18: a login answered with any status but 200 makes authenticate fail with
\* an error that carries that status and the raw body; the cached token and
\* the config file stay as they were and Config.Save is not called.
C18_RejectedLoginChangesNothing ==
    [][ (pc \in {"auth", "reauth"} /\ pc' # pc /\ LastEvent'.code \notin {0, 200}) =>
            /\ pc' = "done"
            /\ LastEvent'.ev = "ensure_err"
            /\ result'.kind = "err"
            /\ result'.text = "authentication failed: HTTP"
            /\ result'.code = LastEvent'.code
            /\ result'.body = LastEvent'.body
            /\ jwt' = jwt
            /\ disk' = disk
            /\ LastEvent'.save = ""
      ]_vars

\* C18, its case: a login rejected with 500 and a body while an expired token
\* was cached; the token is still there.
C18_Witness ==
    /\ pc = "done"
    /\ Kinds(log) = <<"login", "ensure_err">>
    /\ LastEvent.code = 500
    /\ LastEvent.body # ""
    /\ result.code = 500
    /\ jwt.present

\* C19: when the login succeeds and Config.Save fails, the operation ends with
\* the save error and sends no resource request, the new token stays in the
\* config in memory, and the next operation of this client, while that token
\* has not expired, sends its request with it without a login.
C19_SaveFailureKeepsToken ==
    [][ /\ (pc \in {"auth", "reauth"} /\ pc' # pc /\ LastEvent'.save = "failed") =>
              /\ pc' = "done"
              /\ LastEvent'.ev = "ensure_err"
              /\ result'.kind = "err"
              /\ result'.text = "failed to save JWT token"
              /\ jwt'.present
              /\ jwt'.Token = LastEvent'.tok
              /\ disk' = disk
        /\ (pc = "done" /\ result.text = "failed to save JWT token" /\ CallStep
                /\ ~IsExpired(jwt, now)) =>
              /\ pc' = "ready"
              /\ Kinds(log') = <<"ensure_ok">>
              /\ jwt' = jwt
        /\ (pc = "ready" /\ pc' = "sent") => LastEvent'.tok = jwt.Token
      ]_vars

\* C19, its case: the operation after a failed save sends its request with
\* the token that is in memory and not in the file.
C19_Witness ==
    /\ pc = "sent"
    /\ nOps = 2
    /\ Kinds(log) = <<"ensure_ok", "throttle", "send">>
    /\ jwt.present
    /\ disk.JWT # jwt
    /\ LastEvent.tok = jwt.Token
    /\ jwt.Token = "jwt-new"

\* "1000" as it reads on the query string.
Thousand == <<"1", "0", "0", "0">>

Issued == call.phase \in {"sent", "done"}

\* C13: whichever way a page size above 1000 is asked for - the options of
\* ListOrganizationScansWithOptions, the --page-size flag, a "pageSize"
\* override given to BuildStandardParams - the request carries pageSize=1000.
\* (Fails: BuildStandardParams copies a "pageSize" override as it is.)
C13_PageSizeClamped ==
    (Issued /\ call.name \in {"scansWithOptions", "scanList", "buildParams"}
            /\ call.asked > 1000) =>
        ("pageSize" \in DOMAIN query /\ query["pageSize"] = Thousand)

\* C14: a list accessor called without pagination overrides (members, teams,
\* applications, scans, and scans with options whose PageSize is <= 0) sends
\* pageSize=1000, and when the executor hands it a response whose body is a
\* JSON envelope it returns the array of its envelope member: the same
\* elements, in the same order (none when the member is missing).
C14_DefaultPageSizeAndServerOrder ==
    (Issued /\ (\/ call.name \in {"members", "teams", "applications", "scans"}
                \/ (call.name = "scansWithOptions" /\ call.asked <= 0))) =>
        /\ "pageSize" \in DOMAIN query
        /\ query["pageSize"] = Thousand
        /\ (call.phase = "done" /\ call.resp.kind = "ok" /\ call.resp.body.valid) =>
             LET field == CASE call.name = "members" -> "users"
                            [] call.name = "teams" -> "teams"
                            [] call.name = "applications" -> "applications"
                            [] OTHER -> "applicationScanResults"
                 sent == call.resp.body.fields
             IN  /\ returned.kind = "ok"
                 /\ field \in DOMAIN sent =>
                      /\ Len(returned.items) = Len(sent[field])
                      /\ \A i \in DOMAIN returned.items : returned.items[i] = sent[field][i]
                 /\ field \notin DOMAIN sent => returned.items = <<>>

\* C14, its case: the members of an organization, two users "b" then "a".
C14_Witness ==
    /\ call.name = "members"
    /\ call.phase = "done"
    /\ query = [k \in {"pageSize"} |-> Thousand]
    /\ call.resp.kind = "ok"
    /\ call.resp.body.valid
    /\ "users" \in DOMAIN call.resp.body.fields
    /\ returned.items = <<"b", "a">>

\* C15: nothing a command prints holds a character of the API key.  (Fails:
\* status and init print the first eight characters of the key, which is the
\* whole key when it has at most eight.)
C15_OutputHidesKey ==
    call.name \in {"status", "init"} =>
        \A i \in DOMAIN output : \A j \in DOMAIN call.key : output[i] # call.key[j]

\* C20: ListOrganizations returns the organization of every membership of the
\* profile GetUser decoded, in the profile's order and with repeated ids kept:
\* as many organizations as memberships.
C20_OneOrganizationPerMembership ==
    (call.name = "organizations" /\ call.phase = "done" /\ call.resp.kind = "ok"
        /\ call.resp.status = 200 /\ call.resp.body.valid
        /\ "user" \in DOMAIN call.resp.body.fields) =>
        LET ms == call.resp.body.fields["user"].External.Organizations
        IN  /\ returned.kind = "ok"
            /\ Len(returned.items) = Len(ms)
            /\ \A i \in DOMAIN ms : returned.items[i] = ms[i].Organization

\* C20, its case: a profile with two memberships of the same organization.
C20_Witness ==
    /\ call.name = "organizations"
    /\ call.phase = "done"
    /\ returned.kind = "ok"
    /\ Len(returned.items) = 2
    /\ returned.items[1].ID = returned.items[2].ID

\* The running operation's EnsureValidJWT failed before anything was sent.
EnsureFailedFirst ==
    log # <<>> /\ LastEvent.ev = "ensure_err" /\ N(log, "send") = 0

\* C22: in an operation the first send comes right after the throttle, which
\* comes right after a successful EnsureValidJWT, and a resend only after a
\* send; when EnsureValidJWT fails, the operation returns its error as it is,
\* with no throttle and no resource request.
C22_EnsureThrottleSend ==
    /\ \A i \in DOMAIN log :
         /\ log[i].ev = "send" =>
              (i >= 3 /\ log[i - 1].ev = "throttle" /\ log[i - 2].ev = "ensure_ok")
         /\ log[i].ev = "throttle" => (i >= 2 /\ log[i - 1].ev = "ensure_ok")
         /\ log[i].ev = "resend" => \E j \in 1..(i - 1) : log[j].ev = "send"
    /\ EnsureFailedFirst =>
         /\ pc = "done"
         /\ N(log, "throttle") = 0
         /\ N(log, "resend") = 0
         /\ result.kind = "err"
         /\ result.wrap = ""
         /\ result.code = (IF LastEvent.code = 200 THEN 0 ELSE LastEvent.code)
         /\ result.text \in {"failed to authenticate", "authentication failed: HTTP",
                             "failed to parse auth response", "failed to save JWT token"}

\* C22, its case: the login of an operation was rejected with 401.
C22_Witness ==
    /\ EnsureFailedFirst
    /\ Kinds(log) = <<"login", "ensure_err">>
    /\ LastEvent.code = 401
    /\ result.text = "authentication failed: HTTP"

C24_AtMostTwoSends ==
    /\ N(log, "send") <= 1
    /\ N(log, "resend") <= 1
    /\ N(log, "login") <= 2
    /\ N(log, "sleep") <= 1
    /\ N(log, "clear") <= 1
    /\ N(log, "sleep") + N(log, "clear") <= 1
    /\ N(log, "recv") <= N(log, "send") + N(log, "resend")
    /\ (N(log, "resend") = 1 /\ LastEvent.ev = "recv") => pc = "done"
    /\ N(log, "login") = 2 => N(log, "clear") = 1

\* C24, its cases: a 429 answered the resend after a 401 that followed a
\* login, and the operation is over.
C24_Witness ==
    /\ pc = "done"
    /\ N(log, "login") = 2
    /\ First401
    /\ LastEvent.ev = "recv" /\ LastEvent.code = 429
    /\ N(log, "sleep") = 0

\* C28: an operation never reads the token of an absent JWT, whatever the
\* config it starts from.  (Fails: with an empty API key EnsureValidJWT
\* returns nil without a token, see C5.)
C28_TokenPresentWhenRead == pc # "panic"

\* C29: in an operation that found its token valid and whose first answer is
\* not 401, no step changes the API key, the org id or the cached token, and
\* the config file is not written.
C29_OnlyLoginOr401ChangeConfig ==
    [][ (pc \in {"ready", "sent", "resent"} /\ log[1].ev = "ensure_ok" /\ ~First401') =>
            /\ apiKey' = apiKey
            /\ orgID' = orgID
            /\ jwt' = jwt
            /\ disk' = disk
            /\ \A i \in DOMAIN log' : log'[i].save = ""
      ]_vars

\* C29, its case: a valid token, a first answer of 429 and a 401 to the
\* resend; the token is still cached.
C29_Witness ==
    /\ pc = "done"
    /\ log[1].ev = "ensure_ok"
    /\ First429
    /\ LastEvent.ev = "recv" /\ LastEvent.code = 401
    /\ jwt.present /\ jwt.Token = log[3].tok

\* C30: when a 401 cleared the token and the login that followed failed, the
\* config file holds the token that is in memory.  (Fails: ClearJWT is not
\* followed by a save, so the file keeps the rejected token.)
C30_FileMatchesMemory ==
    (pc = "done" /\ First401 /\ LastEvent.ev = "ensure_err") => disk.JWT = jwt

\* The number of alerts of the applications before the i-th.
RECURSIVE AlertsBefore(_, _)
AlertsBefore(results, i) ==
    IF i <= 1 THEN 0
    ELSE AlertsBefore(results, i - 1) + Len(results[i - 1].ApplicationAlerts)

\* C21: GetScanAlerts succeeds exactly on a 200 response that decodes, and
\* then returns the alerts of all applications in one sequence: the j-th alert
\* of the i-th application stands right after all alerts of the applications
\* before it, and there is nothing else.
C21_AlertsFlattened ==
    (call.name = "alerts" /\ call.phase = "done") =>
        LET r == call.resp
            good == r.kind = "ok" /\ r.status = 200 /\ r.body.valid
        IN  /\ returned.kind = "ok" <=> good
            /\ (good /\ "applicationScanResults" \in DOMAIN r.body.fields) =>
                 LET results == r.body.fields["applicationScanResults"]
                 IN  /\ Len(returned.items) = AlertsBefore(results, Len(results) + 1)
                     /\ \A i \in DOMAIN results :
                          \A j \in DOMAIN results[i].ApplicationAlerts :
                             returned.items[AlertsBefore(results, i) + j]
                                = results[i].ApplicationAlerts[j]

\* C21, its case: one alert in the first application, two in the second.
C21_Witness ==
    /\ call.name = "alerts"
    /\ call.phase = "done"
    /\ call.resp.kind = "ok" /\ call.resp.status = 200 /\ call.resp.body.valid
    /\ "applicationScanResults" \in DOMAIN call.resp.body.fields
    /\ call.resp.body.fields["applicationScanResults"]
          = <<ScanResult(<<"a">>), ScanResult(<<"b", "a">>)>>
    /\ returned = [kind |-> "ok", items |-> <<"a", "b", "a">>]

\* The keys of a parameter map whose values are not empty.
NonEmptyKeys(params) == {k \in DOMAIN params : params[k] # <<>>}

\* C25: the query on the wire has no empty value; it holds the parameters
\* given with a non-empty value and, where BuildStandardParams is used,
\* pageSize, which is 1000 unless a non-empty pageSize was given; an option
\* left unset and an override with an empty value do not appear.
C25_OnlyNonEmptyParameters ==
    Issued =>
        /\ \A k \in DOMAIN query : query[k] # <<>>
        /\ call.name \in {"members", "teams", "applications", "scans"} =>
             DOMAIN query = {"pageSize"}
        /\ call.name = "scansWithOptions" =>
             LET o == call.opts
             IN  /\ "pageSize" \in DOMAIN query
                 /\ "pageToken" \in DOMAIN query <=> (~o.nil /\ o.PageToken # <<>>)
                 /\ "page" \in DOMAIN query <=> (~o.nil /\ o.Page # <<>>)
                 /\ "sortField" \in DOMAIN query <=> (~o.nil /\ o.SortField # <<>>)
                 /\ "sortDir" \in DOMAIN query <=> (~o.nil /\ o.SortDir # <<>>)
                 /\ DOMAIN query \subseteq {"pageSize", "pageToken", "page", "sortField",
                                            "sortDir"}
                 /\ "pageToken" \in DOMAIN query => query["pageToken"] = o.PageToken
                 /\ "page" \in DOMAIN query => query["page"] = o.Page
                 /\ "sortField" \in DOMAIN query => query["sortField"] = o.SortField
                 /\ "sortDir" \in DOMAIN query => query["sortDir"] = o.SortDir
                 /\ (o.nil \/ o.PageSize <= 0) => query["pageSize"] = Thousand
        /\ call.name = "buildOverrides" =>
             /\ DOMAIN query = {"pageSize"} \cup NonEmptyKeys(call.given)
             /\ \A k \in NonEmptyKeys(call.given) : query[k] = call.given[k]
             /\ "pageSize" \notin NonEmptyKeys(call.given) => query["pageSize"] = Thousand
        /\ call.name = "getWithParams" =>
             /\ DOMAIN query = NonEmptyKeys(call.given)
             /\ \A k \in DOMAIN query : query[k] = call.given[k]

\* C25, its case: overrides with an empty pageSize, an empty sortDir and a
\* page token.
C25_Witness ==
    /\ call.name = "buildOverrides"
    /\ DOMAIN call.given = {"pageSize", "pageToken", "sortDir"}
    /\ call.given["pageSize"] = <<>>
    /\ call.given["sortDir"] = <<>>
    /\ call.given["pageToken"] = <<"5">>
    /\ DOMAIN query = {"pageSize", "pageToken"}
    /\ query["pageSize"] = Thousand

\* C26: when the executor hands the request to Do a second time, the server
\* receives a second request with the method, the query and the body of the
\* first.  (Fails: the body reader was drained by the first send, so a resend
\* of a Post or Put with a body fails on a new connection.)
C26_ResendIsSameRequest ==
    (req.phase = "done" /\ req.sends = 2) =>
        /\ Len(wire) = 2
        /\ wire[2].method = wire[1].method
        /\ wire[2].query = wire[1].query
        /\ wire[2].body = wire[1].body
        /\ wire[2].body = req.payload

\* C27: a goroutine that checks the token while the other one's login is under
\* way finds the token invalid too and issues a login of its own; the token a
\* login stores replaces the cached one, whoever stored it; a goroutine that
\* starts after the other one's login is over and finds that token valid does
\* not log in.
C27_ConcurrentRefreshesRace ==
    [][ \A g \in Goroutines :
          LET o == Other(g)
          IN  /\ (procs[g].pc = "idle" /\ procs'[g].pc # "idle"
                    /\ procs[o].pc = "login") =>
                   (procs'[g].pc = "login" /\ procs'[g].saw = "invalid")
              /\ (procs[g].pc = "login" /\ procs'[g].pc = "save") =>
                   (jwt'.present /\ jwt'.Token = procs'[g].got)
              /\ (procs[g].pc = "idle" /\ procs'[g].pc # "idle"
                    /\ procs[o].pc \in {"ready", "sent"} /\ procs[o].got # ""
                    /\ jwt.present /\ jwt.Token = procs[o].got
                    /\ ~IsExpired(jwt, now)) =>
                   (procs'[g].pc = "ready" /\ procs'[g].saw = "valid" /\ jwt' = jwt)
      ]_vars

\* C27, its case: both goroutines found the token invalid and logged in; the
\* token of goroutine 1 was replaced by that of goroutine 2.
C27_Witness ==
    /\ \A g \in Goroutines : procs[g].saw = "invalid" /\ procs[g].pc \in {"ready", "sent"}
    /\ procs[1].got = "jwt-1"
    /\ procs[2].got = "jwt-2"
    /\ jwt.present /\ jwt.Token = "jwt-2"
    /\ procs[1].header = "jwt-2"

====
